---- MODULE Spec2Model ----
(***************************************************************************)
(* Model of components/controller/controller.go: the Controller that maps  *)
(* one sixaxis input frame per control cycle onto the shared hexapod.State *)
(* and the Latch edge detector that gates its discrete controls.           *)
(*                                                                         *)
(* float64 quantities are kept exactly, as integer multiples of 1/Unit     *)
(* (Unit = 2 * 127, so that x / 127.0 * k and the constant 43 + 34.5 are   *)
(* whole numbers of units).                                                *)
(***************************************************************************)
EXTENDS Integers, Sequences, FiniteSets, TLC

\* ---------------------------------------------------------------- bounds
\* Number of Tick calls explored.
MaxTicks == 3
\* Number of distinct controls the operator touches during a run.
MaxOperated == 2
\* Length of the input sequence fed to a single Latch.
MaxLen == 6
\* Number of frames the sampler publishes while Tick calls are interleaved
\* with it, and number of Tick calls interleaved with it.
MaxSamples == 2
\* Number of Tick calls in the runs that work Up and Down alone.
MaxDpadTicks == 9
MaxRacedTicks == 2

\* ------------------------------------------------------ program constants
moveSpeed == 100
rotSpeed == 15
horizontalLookScale == 250
verticalLookScale == 250
focalHorizontalOffset == 0
focalDistance == 500
clearanceStep == 10
minButtonPressure == 10
bankScale == 15
pitchScale == 15
xOffsetScale == 40
zOffsetScale == 40
\* clearance: 40 in New
initialClearance == 40
\* full deflection of an analog stick or trigger: the divisor 127.0
stickRange == 127

\* One float unit (1.0) in fixed point.
Unit == 2 * stickRange
\* focalVerticalOffset = 43 + 34.5, in units.
focalVerticalOffset == (2 * 43 + 69) * stickRange

\* (float64(v) / 127.0) * k, in units.
Scaled(v, k) == v * k * (Unit \div stickRange)

\* ------------------------------------------------------------- the types
Vector3(x, y, z) == [X |-> x, Y |-> y, Z |-> z]
ZeroVector == Vector3(0, 0, 0)
MakePose(p, h, pi, b) == [Position |-> p, Heading |-> h, Pitch |-> pi, Bank |-> b]
ZeroPose == MakePose(ZeroVector, 0, 0, 0)

\* math3d.Pose.Add: the sum of two poses, component by component.
PoseAdd(p, q) ==
  MakePose(Vector3(p.Position.X + q.Position.X,
                   p.Position.Y + q.Position.Y,
                   p.Position.Z + q.Position.Z),
           p.Heading + q.Heading,
           p.Pitch + q.Pitch,
           p.Bank + q.Bank)

\* Latch.Run(pressed) on a latch whose flag is `active`: the returned value
\* and the flag afterwards.
LatchRunSticky(active, pressed) ==
  [out |-> pressed /\ ~active, active |-> active \/ pressed]
LatchRun(active, pressed) ==
  [out |-> pressed /\ ~active, active |-> pressed]

\* --------------------------------------------------------- input frames
\* The fields of sixaxis.SA that Tick reads; all zero after sixaxis.New.
Neutral ==
  [Start |-> FALSE, PS |-> FALSE, Select |-> FALSE,
   LeftStickX |-> 0, LeftStickY |-> 0, RightStickX |-> 0, RightStickY |-> 0,
   L2 |-> 0, R2 |-> 0, R1 |-> 0,
   OrientationX |-> 0, OrientationY |-> 0,
   Up |-> 0, Down |-> 0, Left |-> 0, Right |-> 0, Triangle |-> 0]

\* The values a control can take when it is operated.
Operated ==
  [Start |-> {TRUE}, PS |-> {TRUE}, Select |-> {TRUE},
   LeftStickX |-> {stickRange}, LeftStickY |-> {stickRange},
   RightStickX |-> {stickRange}, RightStickY |-> {stickRange},
   L2 |-> {stickRange}, R2 |-> {stickRange},
   R1 |-> {minButtonPressure, minButtonPressure + 1},
   OrientationX |-> {Unit}, OrientationY |-> {Unit},
   Up |-> {minButtonPressure, minButtonPressure + 1},
   Down |-> {minButtonPressure + 1},
   Left |-> {minButtonPressure + 1},
   Right |-> {minButtonPressure + 1},
   Triangle |-> {minButtonPressure + 1}]

ControlNames == DOMAIN Neutral

\* The controls a frame holds away from neutral.
Operating(f) == {k \in ControlNames : f[k] # Neutral[k]}

\* The frames that operate no control outside T.
RECURSIVE FramesOn(_)
FramesOn(T) ==
  IF T = {}
    THEN {Neutral}
    ELSE LET k == CHOOSE x \in T : TRUE
         IN {[f EXCEPT ![k] = v] :
               f \in FramesOn(T \ {k}), v \in Operated[k] \cup {Neutral[k]}}

ControlSets == {S \in SUBSET ControlNames : Cardinality(S) <= MaxOperated}

\* The frames that keep a run which has touched the controls S within
\* MaxOperated controls; tabulated once.
FramesAfter ==
  [S \in ControlSets |->
     UNION {FramesOn(T) : T \in {U \in ControlSets : S \subseteq U}}] @@ <<>>

\* Poses the downstream engine can have brought the body to.
TiltedPose ==
  MakePose(Vector3(3 * Unit, 50 * Unit, -7 * Unit), 90 * Unit, 5 * Unit, -4 * Unit)
Poses == {ZeroPose, TiltedPose}

\* ------------------------------------------------------------ the state
VARIABLES
  sa,      \* the frame of c.sa that the latest non-shutdown Tick read
  c,       \* the Controller: clearance, setTargetOrientation, the latches
  state,   \* the hexapod.State that Tick is handed
  now,     \* number of Tick calls so far
  err,     \* what the latest Tick call returned
  hist,    \* observer: facts about the frames read so far
  latch,   \* a single Latch, driven on its own
  input,   \* the sequence fed to `latch`
  output,  \* the values `latch` returned
  live,    \* c.sa as the sampler goroutine last left it
  samples, \* number of frames the sampler has published
  pc,      \* the field a running Tick reads next (0: no Tick is running)
  got,     \* the field values the running Tick has read so far
  from     \* the samples (by number) those values came from

vars == <<sa, c, state, now, err, hist, latch, input, output,
          live, samples, pc, got, from>>

latchVars == <<latch, input, output>>
raceVars == <<live, samples, pc, got, from>>

Pressed(p) == p > minButtonPressure

\* -------------------------------------------------------------- Tick
\* Lines 96-102: the pose delta of the left stick and the triggers.
DeltaPoseFromTarget(f) ==
  MakePose(Vector3(Scaled(f.LeftStickX, moveSpeed) + state.Target.Position.X
                     - state.Pose.Position.X,
                   0,
                   Scaled(-f.LeftStickY, moveSpeed)),
           Scaled(f.R2 - f.L2, rotSpeed), 0, 0)
DeltaPose(f) ==
  MakePose(Vector3(Scaled(f.LeftStickX, moveSpeed),
                   0,
                   Scaled(-f.LeftStickY, moveSpeed)),
           Scaled(f.R2 - f.L2, rotSpeed), 0, 0)

\* Lines 96-116: state.Target.
TargetLate(ctl, st, f) ==
  LET edge(l, p) == LatchRun(l, p).out
      clr == ctl.clearance
               + (IF edge(ctl.upLatch, Pressed(f.Up)) THEN clearanceStep * Unit ELSE 0)
               - (IF edge(ctl.downLatch, Pressed(f.Down)) THEN clearanceStep * Unit ELSE 0)
      follow == ctl.setTargetOrientation # edge(ctl.psLatch, f.PS)
      t == PoseAdd(st.Pose, DeltaPose(f))
  IN [t EXCEPT !.Position.Y = clr,
               !.Pitch = IF follow THEN -f.OrientationY * pitchScale ELSE 0,
               !.Bank = IF follow THEN -f.OrientationX * bankScale ELSE 0]
TargetNoRecenter(ctl, st, f) ==
  LET t == PoseAdd(st.Pose, DeltaPose(f))
  IN [t EXCEPT !.Position.Y = ctl.clearance,
               !.Pitch = IF ctl.setTargetOrientation
                           THEN -f.OrientationY * pitchScale ELSE @,
               !.Bank = IF ctl.setTargetOrientation
                          THEN -f.OrientationX * bankScale ELSE @]
TargetOf(ctl, st, f) ==
  LET t == PoseAdd(st.Pose, DeltaPose(f))
  IN [t EXCEPT !.Position.Y = ctl.clearance,
               !.Pitch = IF ctl.setTargetOrientation
                           THEN -f.OrientationY * pitchScale ELSE 0,
               !.Bank = IF ctl.setTargetOrientation
                          THEN -f.OrientationX * bankScale ELSE 0]

\* Lines 120-123: the offset of the right stick.
OffsetOf(f) ==
  Vector3(Scaled(f.RightStickX, xOffsetScale), 0,
          Scaled(f.RightStickY * (-1), zOffsetScale))

\* Lines 131-141: the focal point.
FocalPoint(st, f) ==
  PoseAdd(PoseAdd(st.Pose, MakePose(ZeroVector, 0, -st.Pose.Pitch, -st.Pose.Bank)),
          MakePose(Vector3(Scaled(f.RightStickX, horizontalLookScale)
                             + focalHorizontalOffset * Unit,
                           Scaled(f.RightStickY * (-1), verticalLookScale)
                             + focalVerticalOffset,
                           focalDistance * Unit),
                   0, 0, 0)).Position

\* Lines 118-143: R1 selects which of Offset and LookAt is written.
RightStickBoth(st, f) ==
  [st EXCEPT !.Offset = OffsetOf(f), !.LookAt = <<FocalPoint(st, f)>>]
RightStickClears(st, f) ==
  IF f.R1 > minButtonPressure
    THEN [st EXCEPT !.Offset = OffsetOf(f), !.LookAt = <<>>]
    ELSE [st EXCEPT !.LookAt = <<FocalPoint(st, f)>>]
RightStick(st, f) ==
  IF f.R1 > minButtonPressure
    THEN [st EXCEPT !.Offset = OffsetOf(f)]
    ELSE [st EXCEPT !.LookAt = <<FocalPoint(st, f)>>]

\* Lines 145-179: the six latches, in program order, on the Controller.
ControlsRepeat(ctl, f) ==
  [ctl EXCEPT
     !.psLatch = f.PS,
     !.setTargetOrientation = IF LatchRun(ctl.psLatch, f.PS).out THEN ~@ ELSE @,
     !.upLatch = Pressed(f.Up),
     !.downLatch = Pressed(f.Down),
     !.clearance = @ + (IF Pressed(f.Up) THEN clearanceStep * Unit ELSE 0)
                     - (IF Pressed(f.Down) THEN clearanceStep * Unit ELSE 0),
     !.rightLatch = Pressed(f.Right),
     !.leftLatch = Pressed(f.Left),
     !.selectTriangle = f.Select /\ Pressed(f.Triangle)]
ControlsHeld(ctl, f) ==
  [ctl EXCEPT
     !.psLatch = f.PS,
     !.setTargetOrientation = IF f.PS THEN ~@ ELSE @,
     !.upLatch = LatchRun(@, Pressed(f.Up)).active,
     !.downLatch = LatchRun(@, Pressed(f.Down)).active,
     !.clearance = @ + (IF LatchRun(ctl.upLatch, Pressed(f.Up)).out
                          THEN clearanceStep * Unit ELSE 0)
                     - (IF LatchRun(ctl.downLatch, Pressed(f.Down)).out
                          THEN clearanceStep * Unit ELSE 0),
     !.rightLatch = LatchRun(@, Pressed(f.Right)).active,
     !.leftLatch = LatchRun(@, Pressed(f.Left)).active,
     !.selectTriangle = LatchRun(@, f.Select /\ Pressed(f.Triangle)).active]
ControlsClamped(ctl, f) ==
  [ctl EXCEPT
     !.psLatch = LatchRun(@, f.PS).active,
     !.setTargetOrientation = IF LatchRun(ctl.psLatch, f.PS).out THEN ~@ ELSE @,
     !.upLatch = LatchRun(@, Pressed(f.Up)).active,
     !.downLatch = LatchRun(@, Pressed(f.Down)).active,
     !.clearance =
        LET moved == @ + (IF LatchRun(ctl.upLatch, Pressed(f.Up)).out
                            THEN clearanceStep * Unit ELSE 0)
                       - (IF LatchRun(ctl.downLatch, Pressed(f.Down)).out
                            THEN clearanceStep * Unit ELSE 0)
        IN IF moved < 0 THEN 0 ELSE moved,
     !.rightLatch = LatchRun(@, Pressed(f.Right)).active,
     !.leftLatch = LatchRun(@, Pressed(f.Left)).active,
     !.selectTriangle = LatchRun(@, f.Select /\ Pressed(f.Triangle)).active]
ControlsOneLatch(ctl, f) ==
  [ctl EXCEPT
     !.psLatch = LatchRun(@, f.PS).active,
     !.setTargetOrientation = IF LatchRun(ctl.psLatch, f.PS).out THEN ~@ ELSE @,
     !.upLatch = LatchRun(LatchRun(@, Pressed(f.Up)).active, Pressed(f.Down)).active,
     !.clearance = @ + (IF LatchRun(ctl.upLatch, Pressed(f.Up)).out
                          THEN clearanceStep * Unit ELSE 0)
                     - (IF LatchRun(LatchRun(ctl.upLatch, Pressed(f.Up)).active,
                                    Pressed(f.Down)).out
                          THEN clearanceStep * Unit ELSE 0),
     !.rightLatch = LatchRun(@, Pressed(f.Right)).active,
     !.leftLatch = LatchRun(@, Pressed(f.Left)).active,
     !.selectTriangle = LatchRun(@, f.Select /\ Pressed(f.Triangle)).active]
Controls(ctl, f) ==
  [ctl EXCEPT
     !.psLatch = LatchRun(@, f.PS).active,
     !.setTargetOrientation = IF LatchRun(ctl.psLatch, f.PS).out THEN ~@ ELSE @,
     !.upLatch = LatchRun(@, Pressed(f.Up)).active,
     !.downLatch = LatchRun(@, Pressed(f.Down)).active,
     !.clearance = @ + (IF LatchRun(ctl.upLatch, Pressed(f.Up)).out
                          THEN clearanceStep * Unit ELSE 0)
                     - (IF LatchRun(ctl.downLatch, Pressed(f.Down)).out
                          THEN clearanceStep * Unit ELSE 0),
     !.rightLatch = LatchRun(@, Pressed(f.Right)).active,
     !.leftLatch = LatchRun(@, Pressed(f.Left)).active,
     !.selectTriangle = LatchRun(@, f.Select /\ Pressed(f.Triangle)).active]

\* Lines 163-179: the latched controls that act on the State.
CountersRepeat(ctl, st, f) ==
  [st EXCEPT
     !.Speed = @ + (IF Pressed(f.Right) THEN 1 ELSE 0)
                 - (IF Pressed(f.Left) THEN 1 ELSE 0),
     !.GaitIndex = @ + (IF LatchRun(ctl.selectTriangle,
                                    f.Select /\ Pressed(f.Triangle)).out
                          THEN 1 ELSE 0)]
CountersSelectAlone(ctl, st, f) ==
  [st EXCEPT
     !.Speed = @ + (IF LatchRun(ctl.rightLatch, Pressed(f.Right)).out THEN 1 ELSE 0)
                 - (IF LatchRun(ctl.leftLatch, Pressed(f.Left)).out THEN 1 ELSE 0),
     !.GaitIndex = @ + (IF LatchRun(ctl.selectTriangle, f.Select).out
                          THEN 1 ELSE 0)]
Counters(ctl, st, f) ==
  [st EXCEPT
     !.Speed = @ + (IF LatchRun(ctl.rightLatch, Pressed(f.Right)).out THEN 1 ELSE 0)
                 - (IF LatchRun(ctl.leftLatch, Pressed(f.Left)).out THEN 1 ELSE 0),
     !.GaitIndex = @ + (IF LatchRun(ctl.selectTriangle,
                                    f.Select /\ Pressed(f.Triangle)).out
                          THEN 1 ELSE 0)]

\* Lines 87-91: pressing Start sets Shutdown.
ShutdownOnSelect(st, f) ==
  IF f.Select /\ ~st.Shutdown THEN [st EXCEPT !.Shutdown = TRUE] ELSE st
ShutdownOf(st, f) ==
  IF f.Start /\ ~st.Shutdown THEN [st EXCEPT !.Shutdown = TRUE] ELSE st

\* Lines 87-179: the State and the Controller that a Tick entered with
\* Shutdown false leaves behind, having read frame f.
RunStateStop(ctl, st, f) ==
  IF f.Start
    THEN ShutdownOf(st, f)
    ELSE LET s1 == ShutdownOf(st, f)
             s2 == [s1 EXCEPT !.Target = TargetOf(ctl, s1, f)]
             s3 == RightStick(s2, f)
         IN Counters(ctl, s3, f)
RunState(ctl, st, f) ==
  LET s1 == ShutdownOf(st, f)
      s2 == [s1 EXCEPT !.Target = TargetOf(ctl, s1, f)]
      s3 == RightStick(s2, f)
  IN Counters(ctl, s3, f)

RunCtrl(ctl, f) == Controls(ctl, f)

\* ------------------------------------------------------------ observers
RisingEdge(before, after) == after /\ ~before

\* 1 when the signal rises between two consecutive frames, 0 otherwise.
Fired(before, after) == IF RisingEdge(before, after) THEN 1 ELSE 0

\* Select held together with Triangle above the threshold.
Chord(f) == f.Select /\ Pressed(f.Triangle)

NoHold == [n |-> 0, base |-> 0]

\* A hold of the button `mine`, with the button `other` released throughout:
\* the number of ticks it has lasted and the clearance it started from.
Hold(h, ctl, before, mine, other) ==
  IF ~mine \/ other THEN NoHold
  ELSE IF h.n > 0 THEN [h EXCEPT !.n = @ + 1]
  ELSE IF ~before THEN [n |-> 1, base |-> ctl.clearance]
  ELSE NoHold

\* What a Tick that reads frame f, after frame prev, adds to the record.
Observe(h, ctl, prev, f) ==
  [run |-> IF f = prev THEN h.run + 1 ELSE 1,
   idle |-> h.idle,
   used |-> h.used \cup Operating(f),
   psEdges |-> h.psEdges + (IF RisingEdge(prev.PS, f.PS) THEN 1 ELSE 0),
   upHold |-> Hold(h.upHold, ctl, Pressed(prev.Up), Pressed(f.Up), Pressed(f.Down)),
   downHold |-> Hold(h.downHold, ctl, Pressed(prev.Down), Pressed(f.Down),
                     Pressed(f.Up)),
   rightEdges |-> h.rightEdges + Fired(Pressed(prev.Right), Pressed(f.Right)),
   leftEdges |-> h.leftEdges + Fired(Pressed(prev.Left), Pressed(f.Left)),
   chordEdges |-> h.chordEdges + Fired(Chord(prev), Chord(f)),
   upEdges |-> h.upEdges + Fired(Pressed(prev.Up), Pressed(f.Up)),
   downEdges |-> h.downEdges + Fired(Pressed(prev.Down), Pressed(f.Down)),
   entry |-> [clearance |-> ctl.clearance, follow |-> ctl.setTargetOrientation],
   fired |-> [up |-> Fired(Pressed(prev.Up), Pressed(f.Up)),
              down |-> Fired(Pressed(prev.Down), Pressed(f.Down)),
              ps |-> RisingEdge(prev.PS, f.PS)],
   lookWrites |-> h.lookWrites + (IF f.R1 > minButtonPressure THEN 0 ELSE 1),
   focal |-> IF f.R1 > minButtonPressure THEN h.focal ELSE FocalPoint(state, f)]

NoHistory ==
  [run |-> 0, idle |-> 0, used |-> {}, psEdges |-> 0,
   upHold |-> NoHold, downHold |-> NoHold,
   rightEdges |-> 0, leftEdges |-> 0, chordEdges |-> 0,
   upEdges |-> 0, downEdges |-> 0,
   entry |-> [clearance |-> 0, follow |-> FALSE],
   fired |-> [up |-> 0, down |-> 0, ps |-> FALSE],
   lookWrites |-> 0, focal |-> ZeroVector]

\* ------------------------------------------------------------- actions
NewController ==
  [clearance |-> initialClearance * Unit,
   upLatch |-> FALSE, downLatch |-> FALSE, leftLatch |-> FALSE,
   rightLatch |-> FALSE, psLatch |-> FALSE, selectTriangle |-> FALSE,
   setTargetOrientation |-> FALSE]

NewState ==
  [Pose |-> ZeroPose, Target |-> ZeroPose, Offset |-> ZeroVector,
   LookAt |-> <<>>, Speed |-> 0, GaitIndex |-> 0, Shutdown |-> FALSE]

Init ==
  /\ sa = Neutral
  /\ c = NewController
  /\ state = NewState
  /\ now = 0
  /\ err = "none"
  /\ hist = NoHistory
  /\ latch = [active |-> FALSE]
  /\ input = <<>>
  /\ output = <<>>
  /\ live = Neutral
  /\ samples = 0
  /\ pc = 0
  /\ got = Neutral
  /\ from = {}

\* Controller.Tick, lines 80-182.
TickNoReturn(f) ==
  /\ now < MaxTicks
  /\ now' = now + 1
  /\ state' = RunState(c, state, f)
  /\ c' = RunCtrl(c, f)
  /\ sa' = f
  /\ hist' = Observe(hist, c, sa, f)
  /\ err' = "nil"
  /\ UNCHANGED <<latchVars, raceVars>>
TickFailsWhenShutdown(f) ==
  /\ now < MaxTicks
  /\ now' = now + 1
  /\ IF state.Shutdown
       THEN /\ hist' = [hist EXCEPT !.idle = @ + 1]
            /\ err' = "shutting down"
            /\ UNCHANGED <<sa, c, state>>
       ELSE /\ state' = RunState(c, state, f)
            /\ c' = RunCtrl(c, f)
            /\ sa' = f
            /\ hist' = Observe(hist, c, sa, f)
            /\ err' = "nil"
  /\ UNCHANGED <<latchVars, raceVars>>
TickBody(f) ==
  /\ now' = now + 1
  /\ IF state.Shutdown
       THEN /\ hist' = [hist EXCEPT !.idle = @ + 1]
            /\ UNCHANGED <<sa, c, state>>
       ELSE /\ state' = RunState(c, state, f)
            /\ c' = RunCtrl(c, f)
            /\ sa' = f
            /\ hist' = Observe(hist, c, sa, f)
  /\ err' = "nil"
  /\ UNCHANGED <<latchVars, raceVars>>
Tick(f) ==
  /\ now < MaxTicks
  /\ TickBody(f)

\* Frames arrive from the sampler started by Boot (line 76); a Tick reads the
\* frame that is current when it runs.
TickAny == \E f \in FramesAfter[hist.used] : Tick(f)

\* The downstream engine moves the body between ticks.
Engine ==
  /\ now < MaxTicks
  /\ \E p \in Poses \ {state.Pose} : state' = [state EXCEPT !.Pose = p]
  /\ UNCHANGED <<sa, c, now, err, hist, latchVars, raceVars>>

Next == TickAny \/ Engine

Spec == Init /\ [][Next]_vars

\* Runs in which the operator works the Up and Down buttons alone, long
\* enough to take the clearance from 40 to below zero.
DpadFrames == FramesOn({"Up", "Down"})

TickDpad ==
  /\ now < MaxDpadTicks
  /\ \E f \in DpadFrames : TickBody(f)

NextDpad == TickDpad

SpecDpad == Init /\ [][NextDpad]_vars

\* One Latch fed a boolean sequence.
LatchStep ==
  /\ Len(input) < MaxLen
  /\ \E pressed \in BOOLEAN :
       LET r == LatchRun(latch.active, pressed)
       IN /\ latch' = [active |-> r.active]
          /\ input' = Append(input, pressed)
          /\ output' = Append(output, r.out)
  /\ UNCHANGED <<sa, c, state, now, err, hist, raceVars>>

NextLatch == LatchStep

SpecLatch == Init /\ [][NextLatch]_vars

\* ------------------------------------------ Tick beside the sampler
\* Boot (line 76) starts the sampler as a goroutine that writes c.sa with no
\* lock; Tick reads c.sa field by field, in this order (lines 88-176).
ReadOrder ==
  <<"Start", "LeftStickX", "LeftStickY", "R2", "L2",
    "OrientationY", "OrientationX", "R1", "RightStickX", "RightStickY",
    "PS", "Up", "Down", "Right", "Left", "Select", "Triangle">>

\* Whether the running Tick reads field k at all: the orientation only in
\* target orientation mode (line 110), Triangle only behind Select (line 176).
IsRead(k) ==
  CASE k \in {"OrientationX", "OrientationY"} -> c.setTargetOrientation
    [] k = "Triangle" -> got.Select
    [] OTHER -> TRUE

\* Whether the read of field k can go ahead: a plain field read never waits.
ReadyOnceSampled(k) == samples > 0
Ready(k) == TRUE

\* The frames the sampler publishes in the interleaved runs.
RacedFrames == FramesOn({"LeftStickX", "Up"})

\* sixaxis.SA.Run, started by Boot: publishes the next frame.
Sample ==
  /\ samples < MaxSamples
  /\ samples' = samples + 1
  /\ \E f \in RacedFrames \ {live} : live' = f
  /\ UNCHANGED <<sa, c, state, now, err, hist, latchVars, pc, got, from>>

\* Lines 80-85: Tick is called; it returns at once when Shutdown is set.
TickEnter ==
  /\ pc = 0
  /\ now < MaxRacedTicks
  /\ now' = now + 1
  /\ IF state.Shutdown
       THEN /\ err' = "nil"
            /\ hist' = [hist EXCEPT !.idle = @ + 1]
            /\ UNCHANGED <<pc, got, from>>
       ELSE /\ pc' = 1
            /\ got' = Neutral
            /\ from' = {}
            /\ UNCHANGED <<err, hist>>
  /\ UNCHANGED <<sa, c, state, latchVars, live, samples>>

\* Lines 88-176: the running Tick reads its next field of c.sa.
TickRead ==
  /\ pc \in 1..Len(ReadOrder)
  /\ Ready(ReadOrder[pc])
  /\ pc' = pc + 1
  /\ IF IsRead(ReadOrder[pc])
       THEN /\ got' = [got EXCEPT ![ReadOrder[pc]] = live[ReadOrder[pc]]]
            /\ from' = from \cup {samples}
       ELSE UNCHANGED <<got, from>>
  /\ UNCHANGED <<sa, c, state, now, err, hist, latchVars, live, samples>>

\* Line 181: the running Tick returns, having written the State and the
\* Controller from the values it read.
TickReturn ==
  /\ pc = Len(ReadOrder) + 1
  /\ pc' = 0
  /\ state' = RunState(c, state, got)
  /\ c' = RunCtrl(c, got)
  /\ sa' = got
  /\ hist' = Observe(hist, c, sa, got)
  /\ err' = "nil"
  /\ UNCHANGED <<now, latchVars, live, samples, got, from>>

TickRun == TickRead \/ TickReturn

NextRaced == Sample \/ TickEnter \/ TickRead \/ TickReturn

\* The scheduler keeps running the goroutine that called Tick; nothing is
\* assumed of the sampler.
SpecRaced == Init /\ [][NextRaced]_vars /\ WF_vars(TickRun)

\* ------------------------------------------------------------ the claims
\* A step that is a call of Tick, and one entered with Shutdown false (sa is
\* then the frame the previous such call read, sa' the one this call reads).
TickStep == now' = now + 1
LiveTick == TickStep /\ ~state.Shutdown

Step == clearanceStep * Unit

\* C1: fed any boolean sequence from its constructed state, a Latch returns
\* true at index i exactly when input[i] is true and i is the first index or
\* input[i-1] is false.
C1_LatchFiresOnRisingEdges ==
  /\ Len(output) = Len(input)
  /\ \A i \in 1..Len(input) :
       output[i] = (input[i] /\ (i = 1 \/ ~input[i - 1]))

C1_Witness ==
  /\ input = <<FALSE, TRUE, TRUE, FALSE, TRUE>>
  /\ output = <<FALSE, TRUE, FALSE, FALSE, TRUE>>

\* C2 as stated: after any tick Target.position.y equals the clearance the
\* Controller holds when the tick returns.
C2_TargetYIsClearanceAtReturn ==
  now > 0 => state.Target.Position.Y = c.clearance

\* C2 as amended: a tick entered with Shutdown false sets Target.position.y to
\* the clearance held when the tick was entered; that is the clearance at return
\* exactly when the tick's Up and Down rising edges cancel.
C2_TargetYIsClearanceAtEntry ==
  [][LiveTick =>
       /\ state'.Target.Position.Y = c.clearance
       /\ (state'.Target.Position.Y = c'.clearance)
            <=> (RisingEdge(Pressed(sa.Up), Pressed(sa'.Up))
                   = RisingEdge(Pressed(sa.Down), Pressed(sa'.Down)))]_vars

C2_Witness ==
  /\ Pressed(sa.Up)
  /\ c.clearance = initialClearance * Unit + Step
  /\ state.Target.Position.Y = initialClearance * Unit

\* C3: a Tick called with Shutdown true leaves every field of State as it was,
\* whatever the frame.
C3_ShutdownTickLeavesState ==
  [][TickStep /\ state.Shutdown => state' = state]_vars

C3_Witness ==
  /\ state.Shutdown
  /\ hist.idle >= 2
  /\ state.Target # ZeroPose

\* C4 as stated: the tick in which Start is pressed sets Shutdown and changes
\* no other State field and no Controller field.
C4_StartTickStopsMutation ==
  [][LiveTick /\ sa'.Start =>
       /\ state' = [state EXCEPT !.Shutdown = TRUE]
       /\ c' = c]_vars

\* C4 as amended: the tick in which Start is pressed sets Shutdown and then
\* runs to its end: every other State field and every Controller field is left
\* as the same tick with Start released would leave it.
C4_StartTickRunsToEnd ==
  [][LiveTick /\ sa'.Start =>
       LET released == [sa' EXCEPT !.Start = FALSE]
       IN /\ state'.Shutdown
          /\ state' = [RunState(c, state, released) EXCEPT !.Shutdown = TRUE]
          /\ state'.Target.Position.Y = c.clearance
          /\ state'.LookAt # <<>> \/ Pressed(sa'.R1)
          /\ c' = RunCtrl(c, released)
          /\ c'.upLatch = Pressed(sa'.Up)]_vars

C4_Witness ==
  /\ state.Shutdown
  /\ sa.Start
  /\ Pressed(sa.Up)
  /\ c.clearance = initialClearance * Unit + Step
  /\ state.Target.Position.Y = initialClearance * Unit
  /\ state.LookAt # <<>>

\* C5: no step takes Shutdown from true to false, and a Tick takes it from
\* false to true exactly when the frame it reads has Start pressed.
C5_ShutdownMonotone ==
  [][/\ state.Shutdown => state'.Shutdown
     /\ LiveTick => (state'.Shutdown <=> sa'.Start)]_vars

C5_Witness ==
  /\ state.Shutdown
  /\ sa.Start
  /\ hist.idle >= 1
  /\ now = MaxTicks

\* C6 as stated: after a tick, whenever the orientation-follow flag is false
\* Target.pitch and Target.bank are 0.
C6_FlagOffMeansLevel ==
  (now > 0 /\ ~c.setTargetOrientation)
    => (state.Target.Pitch = 0 /\ state.Target.Bank = 0)

\* C6 as amended: a tick entered with Shutdown false and the flag false leaves
\* Target.pitch = Target.bank = 0; the tick whose PS press switches the flag
\* from on to off still sets them from the orientation sensor.
C6_LevelWhenEnteredWithFlagOff ==
  [][LiveTick =>
       /\ ~c.setTargetOrientation
            => (state'.Target.Pitch = 0 /\ state'.Target.Bank = 0)
       /\ (c.setTargetOrientation /\ ~c'.setTargetOrientation)
            => /\ state'.Target.Pitch = -sa'.OrientationY * pitchScale
               /\ state'.Target.Bank = -sa'.OrientationX * bankScale]_vars

C6_Witness ==
  /\ sa.PS
  /\ ~c.setTargetOrientation
  /\ hist.idle = 0
  /\ state.Target.Pitch = -Unit * pitchScale

\* C7: a tick entered with Shutdown false writes exactly one of Offset and
\* LookAt: Offset from the right stick, LookAt kept, when R1 is above the
\* threshold; LookAt, Offset kept, when R1 is at or below it.
C7_OneOfOffsetLookAt ==
  [][LiveTick =>
       IF sa'.R1 > minButtonPressure
         THEN /\ state'.Offset.X * stickRange = sa'.RightStickX * xOffsetScale * Unit
              /\ state'.Offset.Y = 0
              /\ state'.Offset.Z * stickRange = -sa'.RightStickY * zOffsetScale * Unit
              /\ state'.LookAt = state.LookAt
         ELSE /\ state'.LookAt = <<FocalPoint(state, sa')>>
              /\ state'.Offset = state.Offset]_vars

C7_Witness ==
  /\ sa.R1 = minButtonPressure
  /\ state.Offset = Vector3(xOffsetScale * Unit, 0, 0)
  /\ state.LookAt # <<>>
  /\ hist.idle = 0

\* C8: while Up has been held for n >= 1 consecutive non-shutdown ticks, after a
\* tick with Up released or construction and with Down released throughout,
\* clearance is one clearanceStep above its value before the hold; the same
\* for Down, one step below.
C8_HoldMovesOneStep ==
  /\ hist.upHold.n >= 1 => c.clearance = hist.upHold.base + Step
  /\ hist.downHold.n >= 1 => c.clearance = hist.downHold.base - Step

C8_Witness ==
  /\ hist.upHold.n = 3
  /\ c.clearance = initialClearance * Unit + Step

\* C9 as stated: the flag is the parity of the PS rising edges seen, and after
\* a tick Target.pitch and Target.bank track the sensor when the flag is on
\* and are 0 when it is off.
C9_TargetFollowsFlag ==
  now > 0 =>
    /\ c.setTargetOrientation = (hist.psEdges % 2 = 1)
    /\ IF c.setTargetOrientation
         THEN /\ state.Target.Pitch = -sa.OrientationY * pitchScale
              /\ state.Target.Bank = -sa.OrientationX * bankScale
         ELSE state.Target.Pitch = 0 /\ state.Target.Bank = 0

\* C9 as amended: the flag is the parity of the PS rising edges seen in
\* non-shutdown ticks, a held PS toggles once, and Target follows the flag one
\* tick late: a non-shutdown tick sets pitch and bank from the sensor when it
\* was entered with the flag on and to 0 when it was entered with the flag off.
C9_FlagIsParityTargetLags ==
  /\ [](c.setTargetOrientation = (hist.psEdges % 2 = 1))
  /\ [][LiveTick =>
          /\ c'.setTargetOrientation
               = (c.setTargetOrientation # RisingEdge(sa.PS, sa'.PS))
          /\ IF c.setTargetOrientation
               THEN /\ state'.Target.Pitch = -sa'.OrientationY * pitchScale
                    /\ state'.Target.Bank = -sa'.OrientationX * bankScale
               ELSE state'.Target.Pitch = 0 /\ state'.Target.Bank = 0]_vars

C9_Witness ==
  /\ hist.psEdges = 2
  /\ ~c.setTargetOrientation
  /\ sa.OrientationY # 0
  /\ state.Target.Pitch # 0

C11_SpeedCountsEdges ==
  state.Speed = NewState.Speed + hist.rightEdges - hist.leftEdges

C11_Witness ==
  /\ hist.run = 3
  /\ Pressed(sa.Right)
  /\ Pressed(sa.Left)
  /\ hist.rightEdges = 1
  /\ hist.leftEdges = 1
  /\ state.Speed = 0

\* C12: GaitIndex is the number of rising edges of the chord (Select and
\* Triangle above the threshold) over the ticks entered with Shutdown false:
\* it moves by exactly 1 on such an edge and by nothing otherwise, so Select
\* alone, Triangle alone and a held chord add nothing and it never decreases.
C12_GaitCountsChordEdges ==
  /\ state.GaitIndex = NewState.GaitIndex + hist.chordEdges
  /\ (~Chord(sa) /\ hist.run = now) => state.GaitIndex = NewState.GaitIndex

C12_Witness ==
  /\ hist.run = 2
  /\ now = 3
  /\ Chord(sa)
  /\ state.GaitIndex = 1

\* C13: every call of Tick returns a nil error, on the shutdown path and on
\* the normal path.
C13_TickReturnsNil ==
  now > 0 => err = "nil"

C13_Witness ==
  /\ err = "nil"
  /\ hist.idle >= 1
  /\ hist.run >= 1
  /\ now = MaxTicks

\* C14: in a tick entered with Shutdown false each of the six discrete
\* controls fires exactly on the rising edge of its own input between the
\* previous such tick and this one, whatever the other controls do: Down
\* pressed while Up is held still takes one step off the clearance.
C14_ControlsFireOnOwnEdge ==
  [][LiveTick =>
       /\ (c'.setTargetOrientation # c.setTargetOrientation)
            = RisingEdge(sa.PS, sa'.PS)
       /\ c'.clearance - c.clearance
            = Step * (Fired(Pressed(sa.Up), Pressed(sa'.Up))
                        - Fired(Pressed(sa.Down), Pressed(sa'.Down)))
       /\ state'.Speed - state.Speed
            = Fired(Pressed(sa.Right), Pressed(sa'.Right))
                - Fired(Pressed(sa.Left), Pressed(sa'.Left))
       /\ state'.GaitIndex - state.GaitIndex = Fired(Chord(sa), Chord(sa'))]_vars

C14_Witness ==
  /\ Pressed(sa.Up)
  /\ Pressed(sa.Down)
  /\ hist.idle = 0
  /\ state.Target.Position.Y = initialClearance * Unit + Step
  /\ c.clearance = initialClearance * Unit

\* C15: with the sampler running beside Tick, the values one Tick call reads
\* from c.sa all come from one sample.
C15_TickReadsOneSample ==
  Cardinality(from) <= 1

\* C16: every Tick call that has started returns, whether the sampler
\* publishes a new frame, stalls or never runs.
C16_TickCompletes ==
  (pc # 0) ~> (pc = 0)

C16_Witness ==
  /\ samples = 0
  /\ pc = 0
  /\ now = MaxRacedTicks
  /\ err = "nil"
  /\ state.LookAt # <<>>

\* C17: Target shows the discrete controls one tick late. After a tick entered
\* with Shutdown false, Target.position.y is the clearance held at its entry
\* and pitch and bank follow the flag held at its entry, while the clearance
\* and the flag themselves already carry that tick's Up, Down and PS edges;
\* when that tick also set Shutdown, Target never catches up.
C17_TargetShowsEntryValues ==
  now > 0 =>
    /\ state.Target.Position.Y = hist.entry.clearance
    /\ state.Target.Pitch
         = (IF hist.entry.follow THEN -sa.OrientationY * pitchScale ELSE 0)
    /\ state.Target.Bank
         = (IF hist.entry.follow THEN -sa.OrientationX * bankScale ELSE 0)
    /\ c.clearance
         = hist.entry.clearance + Step * (hist.fired.up - hist.fired.down)
    /\ c.setTargetOrientation = (hist.entry.follow # hist.fired.ps)

C17_Witness ==
  /\ state.Shutdown
  /\ hist.idle >= 1
  /\ hist.fired.up = 1
  /\ c.clearance = initialClearance * Unit + Step
  /\ state.Target.Position.Y = initialClearance * Unit

\* C18: the clearance is 40 plus 10 for every Up rising edge and minus 10 for
\* every Down rising edge seen by the ticks entered with Shutdown false, with
\* no clamp at either end: Down presses take it to zero and below.
C18_ClearanceCountsEdges ==
  c.clearance
    = (initialClearance + clearanceStep * (hist.upEdges - hist.downEdges)) * Unit

C18_Witness ==
  /\ hist.downEdges = 5
  /\ hist.upEdges = 0
  /\ c.clearance = -Step

\* C19: once a tick has written LookAt (a tick entered with Shutdown false
\* that read R1 at or below the threshold) LookAt stays set, and holds the
\* focal point of the latest such tick through the ticks with R1 above the
\* threshold and the shutdown ticks.
C19_LookAtStaysSet ==
  IF hist.lookWrites = 0
    THEN state.LookAt = NewState.LookAt
    ELSE state.LookAt # <<>> /\ state.LookAt = <<hist.focal>>

C19_Witness ==
  /\ hist.lookWrites = 1
  /\ Pressed(sa.R1)
  /\ hist.idle = 1
  /\ state.LookAt # <<>>

====
